---- MODULE Spec2Model ----
(***************************************************************************)
(* Model of config-barcode-extractor: the regeneration switch of           *)
(* src/index.mjs and BwipBarcodeRenderer.render, the direction quantizer   *)
(* and label detection of BboxUtils, the page loop of src/index.mjs and    *)
(* the unit conversions of src/src/utils.mjs.                              *)
(*                                                                         *)
(* JavaScript strings that the program builds (the bwip-js text) are       *)
(* sequences of one-character strings, so that concatenation, padStart and *)
(* join are computed and not assumed.                                      *)
(***************************************************************************)
EXTENDS Integers, Sequences, FiniteSets, TLC

VARIABLES
    rBarcode,   \* SpecRender: the barcode handed to regeneration
    rStrict,    \* SpecRender: options.strict / argv.strict
    rRender,    \* SpecRender: what BwipBarcodeRenderer.render settled to
    rRegen,     \* SpecRender: what the switch of index.mjs left behind
    dRadians,   \* SpecDir: the angle handed to the direction quantizer
    dResult,    \* SpecDir: the direction it returned
    lBarcode,   \* SpecLabel: the barcode (its position)
    lTextLines, \* SpecLabel: pageTextLines
    lCanvas,    \* SpecLabel: pageCanvas (width, height)
    lLabel,     \* SpecLabel: what the label detection closure returned
    argv,       \* Spec: the parsed command line (strict, excludePages)
    pc,         \* Spec: where the main loop stands (its next await)
    fileIdx,    \* Spec: index in inputFiles of the file being processed
    tempDirs,   \* Spec: the temporary directories that exist
    globQueue,  \* Spec: page files fs.glob has still to yield, as page ids
    pageId,     \* Spec: id of the page being processed
    pageBarcodes,   \* Spec: what zxing returned for the page
    pageTextLines,  \* Spec: the OCR text lines of the page
    idx,        \* Spec: position in pageBarcodes (from 1)
    extractedPageBarcodes,  \* Spec: records pushed for the page
    pageResults,    \* Spec: `page:<id>` entries of the file, by id
    outputJson, \* Spec: the JSON written for the current file (NoOutput: none)
    written,    \* Spec: indexes of the files whose JSON was written
    errors,     \* Spec: what the outer catch reported
    calls,      \* Spec: engine calls made for the current file,
                \*       <<page, engine, index of the barcode or 0>>
    processed,  \* Spec: page ids of the current file in processing order
    failures,   \* Spec: per-barcode failures so far, <<file, page, idx, stage>>
    thrown,     \* Spec: the error that is propagating ("none": none)
    validPages, \* Spec: pages of the current file where zxing returned at
                \*       least one barcode with isValid
    uBbox,      \* SpecUnits: a box in layout units (pts)
    uPixel,     \* SpecUnits: the box converted with ptsToPixel
    uBack       \* SpecUnits: uPixel converted back with pixelToPts

varsRender == <<rBarcode, rStrict, rRender, rRegen>>
varsDir == <<dRadians, dResult>>
varsLabel == <<lBarcode, lTextLines, lCanvas, lLabel>>
varsUnits == <<uBbox, uPixel, uBack>>
varsPipe == <<argv, pc, fileIdx, tempDirs, globQueue, pageId, pageBarcodes,
              pageTextLines, idx, extractedPageBarcodes, pageResults,
              outputJson, written, errors, calls, processed, failures,
              thrown, validPages>>
vars == <<rBarcode, rStrict, rRender, rRegen, dRadians, dResult,
          lBarcode, lTextLines, lCanvas, lLabel, argv, pc, fileIdx, tempDirs,
          globQueue, pageId, pageBarcodes, pageTextLines, idx,
          extractedPageBarcodes, pageResults, outputJson, written, errors,
          calls, processed, failures, thrown, validPages, uBbox, uPixel,
          uBack>>

\* `undefined`/`null` where a byte array, a string or an options object is
\* expected: values no byte array and no string can equal
NoBytes == <<-1>>
NoString == <<"undefined">>
NoOptions == [bcid |-> "undefined"]
Pending == [kind |-> "pending", error |-> "none"]

----------------------------------------------------------------------------
(* Bounds and input samples *)

\* longest rawBytes sequence a decoder hands over
MaxRaw == 4

\* byte values: one, two and three decimal digits, and the bytes of the
\* code128 example (0x41, 0x42, 0x1D, 0x6A)
Bytes == {7, 29, 65, 66, 106}

RawByteSeqs == UNION {[1 .. n -> Bytes] : n \in 0 .. MaxRaw}

\* decoded texts; the second one looks like an escape token
Texts == {<<"H", "I">>, <<"^", "0", "6", "5">>}

\* format names as zxing-wasm reports them
ZxingFormats == {"QRCode", "DataMatrix", "Code128", "EAN-13"}

----------------------------------------------------------------------------
(* String helpers of the JavaScript runtime, as the switch uses them *)

Digits == <<"0", "1", "2", "3", "4", "5", "6", "7", "8", "9">>

\* Number.prototype.toString(): decimal digits, no padding
RECURSIVE toString(_)
toString(v) ==
    IF v < 10 THEN <<Digits[v + 1]>>
    ELSE toString(v \div 10) \o <<Digits[(v % 10) + 1]>>

\* String.prototype.padStart(n, c) for a one-character c
RECURSIVE padStart(_, _, _)
padStart(s, n, c) ==
    IF Len(s) >= n THEN s ELSE padStart(<<c>> \o s, n, c)

\* String.prototype.toLowerCase() on the format names
toLowerCase(name) ==
    CASE name = "QRCode" -> "qrcode"
      [] name = "DataMatrix" -> "datamatrix"
      [] name = "Code128" -> "code128"
      [] name = "EAN-13" -> "ean-13"
      [] OTHER -> name

zxingToBwip(name) == toLowerCase(name)

\* Array.from(barcode.rawBytes || [])
arrayFromRaw(rawBytes) == IF rawBytes = NoBytes THEN <<>> ELSE rawBytes

\* Array.prototype.slice(0, -2)
sliceDropLast1(bytes) ==
    IF Len(bytes) <= 1 THEN <<>> ELSE SubSeq(bytes, 1, Len(bytes) - 1)

sliceDropLast2(bytes) ==
    IF Len(bytes) <= 2 THEN <<>> ELSE SubSeq(bytes, 1, Len(bytes) - 2)

\* (v) => `^${v.toString().padStart(3, '0')}`
escapeTokenNoPad(v) == <<"^">> \o toString(v)
escapeToken(v) == <<"^">> \o padStart(toString(v), 3, "0")

\* .map(escapeToken).join('') || null
RECURSIVE joinTokens(_)
joinTokens(bytes) ==
    IF bytes = <<>> THEN <<>>
    ELSE escapeToken(Head(bytes)) \o joinTokens(Tail(bytes))

bwipRawOf(bytes) ==
    LET s == joinTokens(bytes) IN IF s = <<>> THEN NoString ELSE s

\* JavaScript truthiness of `bwipRaw && strict`
rawIgnoringStrict(bwipRaw, strict) == bwipRaw # NoString

rawAndStrict(bwipRaw, strict) == bwipRaw # NoString /\ strict

----------------------------------------------------------------------------
(* The regeneration switch: src/index.mjs 397-515.  The switch of          *)
(* BwipBarcodeRenderer.render is the same text, line for line, but for its *)
(* default case.  Only the options the recipe decides are kept; padding,   *)
(* colours and scale are the same constants in every case.                 *)

BwipOptions(bcid, text, raw, alttext, parsefnc) ==
    [bcid |-> bcid, text |-> text, raw |-> raw, alttext |-> alttext,
     parsefnc |-> parsefnc]

\* case 'qrcode'
qrcodeCaseReaderInit(barcodeFormat, barcode) ==
    [kind |-> "render",
     options |-> BwipOptions(barcodeFormat,
                    IF barcode.readerInit
                    THEN <<"^", "P", "R", "O", "G">> \o barcode.text
                    ELSE barcode.text,
                    FALSE, NoString, FALSE),
     strict |-> FALSE]

qrcodeCase(barcodeFormat, barcode) ==
    [kind |-> "render",
     options |-> BwipOptions(barcodeFormat, barcode.text, FALSE, NoString,
                             FALSE),
     strict |-> FALSE]

\* case 'datamatrix'
datamatrixCase(barcodeFormat, barcode, strict) ==
    LET bwipRaw == bwipRawOf(arrayFromRaw(barcode.rawBytes)) IN
    IF rawAndStrict(bwipRaw, strict)
    THEN [kind |-> "render",
          options |-> BwipOptions(barcodeFormat, bwipRaw, TRUE, barcode.text,
                                  FALSE),
          strict |-> TRUE]
    ELSE [kind |-> "render",
          options |-> BwipOptions(barcodeFormat,
                        IF barcode.readerInit
                        THEN <<"^", "P", "R", "O", "G">> \o barcode.text
                        ELSE barcode.text,
                        FALSE, barcode.text, barcode.readerInit),
          strict |-> FALSE]

\* case 'code128'
code128Case(barcodeFormat, barcode, strict) ==
    LET bwipRaw == bwipRawOf(sliceDropLast2(arrayFromRaw(barcode.rawBytes))) IN
    IF rawAndStrict(bwipRaw, strict)
    THEN [kind |-> "render",
          options |-> BwipOptions(barcodeFormat, bwipRaw, TRUE, NoString,
                                  FALSE),
          strict |-> TRUE]
    ELSE [kind |-> "render",
          options |-> BwipOptions(barcodeFormat,
                        IF barcode.readerInit
                        THEN <<"^", "F", "N", "C", "3">> \o barcode.text
                        ELSE barcode.text,
                        FALSE, NoString, barcode.readerInit),
          strict |-> FALSE]

\* default: throw when strict was asked for, else regen = false
defaultCaseNoThrow(strict) ==
    [kind |-> "skip", options |-> NoOptions, strict |-> FALSE]

defaultCase(strict) ==
    IF strict
    THEN [kind |-> "throw", options |-> NoOptions, strict |-> FALSE]
    ELSE [kind |-> "skip", options |-> NoOptions, strict |-> FALSE]

\* switch (barcodeFormat) of index.mjs, up to the first await on bwip-js
regenerate(barcode, strict) ==
    LET barcodeFormat == zxingToBwip(barcode.format) IN
    CASE barcodeFormat = "qrcode" -> qrcodeCase(barcodeFormat, barcode)
      [] barcodeFormat = "datamatrix" -> datamatrixCase(barcodeFormat, barcode, strict)
      [] barcodeFormat = "code128" -> code128Case(barcodeFormat, barcode, strict)
      [] OTHER -> defaultCase(strict)

\* BwipBarcodeRenderer.render(barcode, options), up to the first await
render(barcode, options) ==
    LET barcodeFormat == toLowerCase(barcode.format) IN
    CASE barcodeFormat = "qrcode" -> qrcodeCase(barcodeFormat, barcode)
      [] barcodeFormat = "datamatrix" ->
            datamatrixCase(barcodeFormat, barcode, options.strict)
      [] barcodeFormat = "code128" ->
            code128Case(barcodeFormat, barcode, options.strict)
      [] OTHER -> defaultCase(options.strict)

\* bwipjs.toBuffer(options) and bwipjs.toSVG({...options, scale: 1})
NoImage == [image |-> "null"]
toBuffer(options) == [image |-> "png", scale |-> 3, options |-> options]
toSVG(options) == [image |-> "svg", scale |-> 1, options |-> options]


RenderBarcodes ==
    [format : ZxingFormats, text : Texts,
     rawBytes : {NoBytes} \cup RawByteSeqs, readerInit : BOOLEAN]

NoBox == [x0 |-> -1, y0 |-> -1, x1 |-> -1, y1 |-> -1]

IdleUnits == uBbox = NoBox /\ uPixel = NoBox /\ uBack = NoBox

IdleRender ==
    /\ rBarcode = [format |-> "QRCode", text |-> <<"H", "I">>,
                   rawBytes |-> NoBytes, readerInit |-> FALSE]
    /\ rStrict = FALSE
    /\ rRender = Pending
    /\ rRegen = Pending

----------------------------------------------------------------------------
(* State of the main loop before it starts *)

\* --exclude-pages not given (null), or given empty
NoParam == <<>>
NoOutput == [file |-> 0, pages |-> <<>>, common |-> [file |-> 0, strict |-> FALSE]]
NoPage == 0

StartPipe ==
    /\ pc = "file"
    /\ fileIdx = 1
    /\ tempDirs = {}
    /\ globQueue = <<>>
    /\ pageId = NoPage
    /\ pageBarcodes = <<>>
    /\ pageTextLines = <<>>
    /\ idx = 0
    /\ extractedPageBarcodes = <<>>
    /\ pageResults = <<>>
    /\ outputJson = NoOutput
    /\ written = {}
    /\ errors = <<>>
    /\ calls = {}
    /\ processed = <<>>
    /\ failures = {}
    /\ thrown = "none"
    /\ validPages = {}

IdlePipe == argv = [strict |-> FALSE, excludePages |-> NoParam] /\ StartPipe

----------------------------------------------------------------------------
(* BboxUtils: src/index.mjs 225-310 (src/src/utils.mjs 160-248 is the same  *)
(* text).  Boxes are [x0, y0, x1, y1] with integer x0 <= x1, y0 <= y1.      *)

NORTH == 1
SOUTH == 2
WEST == 4
EAST == 8
\* what a function returns when it falls off its end
NoDirection == 0

\* v >>> 1 for a non-negative integer v
ushr1(v) == v \div 2

bboxCenterPoint(bbox) ==
    [x |-> bbox.x0 + ushr1(bbox.x1 - bbox.x0),
     y |-> bbox.y0 + ushr1(bbox.y1 - bbox.y0)]

\* The square of bboxCenterDistance: the code returns |ay - by| when ax = bx,
\* |ax - bx| when ay = by and sqrt(dx*dx + dy*dy) otherwise; the three agree
\* with the square root of this integer, and every comparison the program
\* makes on distances is made here on their squares.
bboxCenterDistanceSq(bboxA, bboxB) ==
    LET a == bboxCenterPoint(bboxA)
        b == bboxCenterPoint(bboxB)
        deltaX == a.x - b.x
        deltaY == a.y - b.y
    IN  IF a.x = b.x THEN deltaY * deltaY
        ELSE IF a.y = b.y THEN deltaX * deltaX
        ELSE (deltaX * deltaX) + (deltaY * deltaY)

\* whether bboxB is inside bboxA
bboxInsideOtherStrict(bboxA, bboxB) ==
    bboxB.x0 > bboxA.x0 /\ bboxB.x1 < bboxA.x1 /\ bboxB.y0 > bboxA.y0
        /\ bboxB.y1 < bboxA.y1

bboxInsideOther(bboxA, bboxB) ==
    bboxB.x0 >= bboxA.x0 /\ bboxB.x1 <= bboxA.x1 /\ bboxB.y0 >= bboxA.y0
        /\ bboxB.y1 <= bboxA.y1

bboxFromBarcode(barcode) ==
    [x0 |-> barcode.position.topLeft.x, y0 |-> barcode.position.topLeft.y,
     x1 |-> barcode.position.bottomRight.x, y1 |-> barcode.position.bottomRight.y]

\* An angle in radians is either an exact multiple of 0.001 (milli) or the
\* value of Math.atan2(y, x) for integers y, x, kept as the pair.
Radians(milli) == [kind |-> "milli", milli |-> milli, y |-> 0, x |-> 0]
atan2(y, x) == [kind |-> "atan2", milli |-> 0, y |-> y, x |-> x]

\* atan2(y, x) >= t / 1000 for the four thresholds of the quantizer.
\* atan2 lies in (-pi, pi], so it never reaches 3.925 or 5.495;
\* tan(0.785) = 0.99920399.. and tan(pi - 2.355) = 1.00239183.., cut to four
\* decimals, which decides the same for every |x| < 419.
atan2GE(y, x, t) ==
    CASE t = 785 ->
            \/ y > 0 /\ x <= 0
            \/ y > 0 /\ x > 0 /\ y * 10000 >= x * 9992
            \/ y = 0 /\ x < 0
      [] t = 2355 ->
            \/ y = 0 /\ x < 0
            \/ y > 0 /\ x < 0 /\ y * 10000 <= (0 - x) * 10023
      [] OTHER -> FALSE

\* radians >= t / 1000 and radians < t / 1000
radiansGE(radians, t) ==
    IF radians.kind = "milli" THEN radians.milli >= t
    ELSE atan2GE(radians.y, radians.x, t)

radiansLT(radians, t) == ~radiansGE(radians, t)

radiansGT(radians, t) ==
    IF radians.kind = "milli" THEN radians.milli > t
    ELSE radiansGE(radians, t)

\* the if-chain of bboxDirectionOf with > and <= for >= and <
directionOfRadiansUpperInclusive(radians) ==
    IF radiansGT(radians, 5495) \/ ~radiansGT(radians, 785) THEN EAST
    ELSE IF radiansGT(radians, 785) /\ ~radiansGT(radians, 2355) THEN NORTH
    ELSE IF radiansGT(radians, 2355) /\ ~radiansGT(radians, 3925) THEN WEST
    ELSE IF radiansGT(radians, 3925) /\ ~radiansGT(radians, 5495) THEN SOUTH
    ELSE NoDirection

\* the if-chain of bboxDirectionOf
directionOfRadians(radians) ==
    IF radiansGE(radians, 5495) \/ radiansLT(radians, 785) THEN EAST
    ELSE IF radiansGE(radians, 785) /\ radiansLT(radians, 2355) THEN NORTH
    ELSE IF radiansGE(radians, 2355) /\ radiansLT(radians, 3925) THEN WEST
    ELSE IF radiansGE(radians, 3925) /\ radiansLT(radians, 5495) THEN SOUTH
    ELSE NoDirection

\* in which cardinal direction bboxB is in relation to bboxA
bboxDirectionOf(bboxA, bboxB) ==
    LET centerA == bboxCenterPoint(bboxA)
        centerB == bboxCenterPoint(bboxB)
    IN  directionOfRadians(atan2(centerA.y - centerB.y, centerA.x - centerB.x))

----------------------------------------------------------------------------
(* Label detection: the closure of src/index.mjs 543-570 *)

Whitespace == {" ", "\n", "\t"}

\* String.prototype.trim()
RECURSIVE trimStart(_)
trimStart(str) ==
    IF str # <<>> /\ Head(str) \in Whitespace THEN trimStart(Tail(str)) ELSE str

RECURSIVE trimEnd(_)
trimEnd(str) ==
    IF str # <<>> /\ str[Len(str)] \in Whitespace
    THEN trimEnd(SubSeq(str, 1, Len(str) - 1))
    ELSE str

trim(str) == trimEnd(trimStart(str))

minOf(a, b) == IF a <= b THEN a ELSE b
maxOf(a, b) == IF a >= b THEN a ELSE b

\* Math.min((x1 - x0) >>> 1, (y1 - y0) >>> 1)
minDistanceOf(barcodeBbox) ==
    minOf(ushr1(barcodeBbox.x1 - barcodeBbox.x0),
          ushr1(barcodeBbox.y1 - barcodeBbox.y0))

\* distance >= Math.max(width, height) * 0.25, on the square of the distance
tooFar(distanceSq, pageCanvas) ==
    LET m == maxOf(pageCanvas.width, pageCanvas.height) IN
    16 * distanceSq >= m * m

\* distance <= minDistance, on the square of the distance
tooNearExclusive(distanceSq, minDistance) ==
    distanceSq < minDistance * minDistance

tooNear(distanceSq, minDistance) == distanceSq <= minDistance * minDistance

\* the line is skipped (`continue`)
skipLine(barcodeBbox, line, pageCanvas) ==
    LET distanceSq == bboxCenterDistanceSq(barcodeBbox, line.bbox) IN
    \/ tooFar(distanceSq, pageCanvas)
    \/ tooNear(distanceSq, minDistanceOf(barcodeBbox))
    \/ bboxInsideOther(barcodeBbox, line.bbox)

\* The distance a candidate is ranked by, as 100 times its square:
\* distance += distance * 0.1 multiplies the square by 1.21.
rankOf(barcodeBbox, line) ==
    LET distanceSq == bboxCenterDistanceSq(barcodeBbox, line.bbox) IN
    IF bboxDirectionOf(barcodeBbox, line.bbox) = NORTH
    THEN distanceSq * 121
    ELSE distanceSq * 100

\* the for loop over textLines: the candidates, in enumeration order
RECURSIVE candidatesFrom(_, _, _, _)
candidatesFrom(barcodeBbox, textLines, pageCanvas, i) ==
    IF i > Len(textLines) THEN <<>>
    ELSE LET line == textLines[i]
             rest == candidatesFrom(barcodeBbox, textLines, pageCanvas, i + 1)
         IN  IF skipLine(barcodeBbox, line, pageCanvas) THEN rest
             ELSE <<[index |-> i, text |-> line.text, bbox |-> line.bbox,
                     direction |-> bboxDirectionOf(barcodeBbox, line.bbox),
                     distance |-> rankOf(barcodeBbox, line)]>> \o rest

\* (a, b) => a.distance - b.distance is not positive: a stays before b
staysBeforeStrict(a, b) == a.distance < b.distance

staysBefore(a, b) == a.distance <= b.distance

\* Array.prototype.sort((a, b) => a.distance - b.distance): stable
RECURSIVE insertSorted(_, _)
insertSorted(sorted, c) ==
    IF sorted = <<>> THEN <<c>>
    ELSE IF staysBefore(Head(sorted), c)
         THEN <<Head(sorted)>> \o insertSorted(Tail(sorted), c)
         ELSE <<c>> \o sorted

RECURSIVE sortByDistance(_)
sortByDistance(candidates) ==
    IF candidates = <<>> THEN <<>>
    ELSE insertSorted(sortByDistance(SubSeq(candidates, 1, Len(candidates) - 1)),
                      candidates[Len(candidates)])

\* the closure: index of the selected line (0: none), selected?.text?.trim(),
\* and the candidates it pushed (index of the line, the direction it was
\* tested for, distance), in push order
labelDetection(barcode, textLines, pageCanvas) ==
    LET barcodeBbox == bboxFromBarcode(barcode)
        candidates == candidatesFrom(barcodeBbox, textLines, pageCanvas, 1)
        sorted == sortByDistance(candidates)
        pushed == [i \in 1 .. Len(candidates) |->
                      [index |-> candidates[i].index,
                       direction |-> candidates[i].direction,
                       distance |-> candidates[i].distance]]
    IN  IF sorted = <<>>
        THEN [index |-> 0, label |-> NoString, candidates |-> pushed]
        ELSE [index |-> sorted[1].index, label |-> trim(sorted[1].text),
              candidates |-> pushed]

----------------------------------------------------------------------------
(* SpecLabel: label detection applied to every barcode box and every list  *)
(* of text lines of the bounded page                                       *)

\* largest coordinate of a box
GridMax == 4

\* where the barcode boxes start (their top-left corner)
BarcodeOrigin == 1

\* texts of the text lines, by position in pageTextLines
LineTexts == << <<" ", "A", "1", "\n">>, <<"B", " ", "2">>, <<"C">> >>

Boxes(lo, hi) ==
    {[x0 |-> a, y0 |-> b, x1 |-> c, y1 |-> d] :
        a \in lo .. hi, b \in lo .. hi, c \in lo .. hi, d \in lo .. hi}

\* text line boxes: anywhere on the grid, one or two units wide and high
LineBoxes ==
    {b \in Boxes(0, GridMax) :
        b.x1 - b.x0 \in {1, 2} /\ b.y1 - b.y0 \in {1, 2}}

\* barcode boxes: from the origin to any grid point right of and below it
BarcodeBoxes ==
    {b \in Boxes(BarcodeOrigin, GridMax) :
        b.x0 = BarcodeOrigin /\ b.y0 = BarcodeOrigin /\ b.x0 < b.x1 /\ b.y0 < b.y1}

PositionOf(bbox) ==
    [topLeft |-> [x |-> bbox.x0, y |-> bbox.y0],
     bottomRight |-> [x |-> bbox.x1, y |-> bbox.y1]]

TextLinesOf(boxes) ==
    [i \in 1 .. Len(boxes) |-> [text |-> LineTexts[i], bbox |-> boxes[i]]]

\* page canvases: a quarter of the larger side is 2 or 4
Canvases == {[width |-> 8, height |-> 6], [width |-> 12, height |-> 16]}

IdleDir == dRadians = Radians(0) /\ dResult = NoDirection

NoLabel ==
    [kind |-> "pending", index |-> 0, label |-> NoString, candidates |-> <<>>]

IdleLabel ==
    /\ lBarcode = [position |-> PositionOf([x0 |-> 0, y0 |-> 0, x1 |-> 0, y1 |-> 0])]
    /\ lTextLines = <<>>
    /\ lCanvas = [width |-> 0, height |-> 0]
    /\ lLabel = NoLabel

InitLabel ==
    /\ lBarcode \in {[position |-> PositionOf(b)] : b \in BarcodeBoxes}
    /\ lTextLines \in {TextLinesOf(bs) :
                         bs \in UNION {[1 .. n -> LineBoxes] : n \in 0 .. 2}}
    /\ lCanvas \in Canvases
    /\ lLabel = NoLabel
    /\ IdleRender
    /\ IdleDir /\ IdlePipe /\ IdleUnits

DetectLabel ==
    /\ lLabel.kind = "pending"
    /\ LET r == labelDetection(lBarcode, lTextLines, lCanvas) IN
         lLabel' = [kind |-> "done", index |-> r.index, label |-> r.label,
                    candidates |-> r.candidates]
    /\ UNCHANGED <<lBarcode, lTextLines, lCanvas, varsRender, varsDir, varsPipe, varsUnits>>

NextLabel == DetectLabel

SpecLabel == InitLabel /\ [][NextLabel]_vars

----------------------------------------------------------------------------
(* SpecDir: the direction quantizer applied to every angle *)

\* the multiples of 0.001 rad from -pi to 2 pi
MilliAngles == -3141 .. 6283

\* largest |y|, |x| of the atan2 arguments
MaxDelta == 3

InitDir ==
    /\ dRadians \in {Radians(m) : m \in MilliAngles}
                    \cup {atan2(y, x) : y \in -MaxDelta .. MaxDelta,
                                        x \in -MaxDelta .. MaxDelta}
    /\ dResult = NoDirection
    /\ IdleRender
    /\ IdleLabel /\ IdlePipe /\ IdleUnits

Quantize ==
    /\ dResult = NoDirection
    /\ dResult' = directionOfRadians(dRadians)
    /\ UNCHANGED <<dRadians, varsRender, varsLabel, varsPipe, varsUnits>>

NextDir == Quantize

SpecDir == InitDir /\ [][NextDir]_vars

----------------------------------------------------------------------------
(* SpecRender: regeneration applied to every barcode of the bounded input  *)

InitRender ==
    /\ rBarcode \in RenderBarcodes
    /\ rStrict \in BOOLEAN
    /\ rRender = Pending
    /\ rRegen = Pending
    /\ IdleDir /\ IdleLabel /\ IdlePipe /\ IdleUnits

\* render() resolves with { barcodePng, barcodeSvg, strict }
RenderResolve ==
    /\ rRender = Pending
    /\ LET r == render(rBarcode, [strict |-> rStrict]) IN
         /\ r.kind = "render"
         /\ rRender' = [kind |-> "resolved", error |-> "none", options |-> r.options,
                        barcodePng |-> toBuffer(r.options),
                        barcodeSvg |-> toSVG(r.options), strict |-> r.strict]
    /\ UNCHANGED <<rBarcode, rStrict, rRegen, varsDir, varsLabel, varsPipe, varsUnits>>

\* bwip-js throws inside render(): the promise rejects
RenderBwipThrows ==
    /\ rRender = Pending
    /\ render(rBarcode, [strict |-> rStrict]).kind = "render"
    /\ rRender' = [kind |-> "rejected", error |-> "bwip-js", options |-> NoOptions,
                   barcodePng |-> NoImage, barcodeSvg |-> NoImage,
                   strict |-> FALSE]
    /\ UNCHANGED <<rBarcode, rStrict, rRegen, varsDir, varsLabel, varsPipe, varsUnits>>

\* default case of render(): throw in strict mode, else return null
RenderDefault ==
    /\ rRender = Pending
    /\ LET r == render(rBarcode, [strict |-> rStrict]) IN
         /\ r.kind \in {"throw", "skip"}
         /\ rRender' = [kind |-> IF r.kind = "throw" THEN "rejected" ELSE "null",
                        error |-> IF r.kind = "throw" THEN "unknown format" ELSE "none",
                        options |-> NoOptions, barcodePng |-> NoImage,
                        barcodeSvg |-> NoImage, strict |-> FALSE]
    /\ UNCHANGED <<rBarcode, rStrict, rRegen, varsDir, varsLabel, varsPipe, varsUnits>>

\* the switch of index.mjs ran to its end: the locals it leaves
RegenDone ==
    /\ rRegen = Pending
    /\ LET r == regenerate(rBarcode, rStrict) IN
         /\ r.kind = "render"
         /\ rRegen' = [kind |-> "done", error |-> "none", regen |-> TRUE,
                       options |-> r.options,
                       bwipBarcodePng |-> toBuffer(r.options),
                       bwipBarcodeSvg |-> toSVG(r.options), strict |-> r.strict]
    /\ UNCHANGED <<rBarcode, rStrict, rRender, varsDir, varsLabel, varsPipe, varsUnits>>

RegenBwipThrows ==
    /\ rRegen = Pending
    /\ regenerate(rBarcode, rStrict).kind = "render"
    /\ rRegen' = [kind |-> "thrown", error |-> "bwip-js", regen |-> TRUE,
                  options |-> NoOptions,
                  bwipBarcodePng |-> NoImage, bwipBarcodeSvg |-> NoImage,
                  strict |-> FALSE]
    /\ UNCHANGED <<rBarcode, rStrict, rRender, varsDir, varsLabel, varsPipe, varsUnits>>

RegenDefault ==
    /\ rRegen = Pending
    /\ LET r == regenerate(rBarcode, rStrict) IN
         /\ r.kind \in {"throw", "skip"}
         /\ rRegen' = [kind |-> IF r.kind = "throw" THEN "thrown" ELSE "done",
                       error |-> IF r.kind = "throw" THEN "unknown format" ELSE "none",
                       regen |-> r.kind = "throw", options |-> NoOptions,
                       bwipBarcodePng |-> NoImage, bwipBarcodeSvg |-> NoImage,
                       strict |-> FALSE]
    /\ UNCHANGED <<rBarcode, rStrict, rRender, varsDir, varsLabel, varsPipe, varsUnits>>

NextRender ==
    \/ RenderResolve
    \/ RenderBwipThrows
    \/ RenderDefault
    \/ RegenDone
    \/ RegenBwipThrows
    \/ RegenDefault

SpecRender == InitRender /\ [][NextRender]_vars

----------------------------------------------------------------------------
(* The main loop of src/index.mjs 316-619, one action per stretch of code   *)
(* between two awaits on an external engine                                 *)

\* number of input files, of pages the rasterizer writes, of barcodes zxing
\* returns for a page
MaxFiles == 2
MaxPages == 2
MaxBarcodes == 2

inputFiles == [i \in 1 .. MaxFiles |-> i]

\* seq(start, end)
seqAscending(start, end) == start .. end

seq(start, end) == minOf(start, end) .. maxOf(start, end)

\* excludedPages: param.split(',') gave the items, item.split('-', 2) and
\* parseInt gave one or two numbers per item
RECURSIVE parsePagelistSet(_)
parsePagelistSet(param) ==
    IF param = <<>> THEN {}
    ELSE LET tmp == param[Len(param)]
             res == parsePagelistSet(SubSeq(param, 1, Len(param) - 1))
         IN  IF Len(tmp) = 2 THEN res \cup seq(tmp[1], tmp[2])
             ELSE res \cup {tmp[1]}

excludedPages == parsePagelistSet(argv.excludePages)

\* --exclude-pages: absent, "1", "3-2"
ExcludeParams == {NoParam, << <<1>> >>, << <<3, 2>> >>}

\* what zxing may return for a page: the barcode's position and text are
\* fixed, its format, validity and reader-init flag vary
BarcodeBox == [x0 |-> 4, y0 |-> 4, x1 |-> 8, y1 |-> 6]

PageBarcodes ==
    {b \in [format : ZxingFormats, text : {<<"H", "I">>}, isValid : BOOLEAN,
            readerInit : {FALSE}, position : {PositionOf(BarcodeBox)},
            rawBytes : {NoBytes}] :
        b.isValid \/ b.format = "QRCode"}

ZxingResults == UNION {[1 .. n -> PageBarcodes] : n \in 0 .. MaxBarcodes}

\* what rxingDetectBarcodes may resolve to: a list of { text, bytes }
RxingResults ==
    {<<>>}
    \cup {<<[text |-> t, bytes |-> <<65, 66, 29, 106>>]>> : t \in Texts}

\* what the OCR may return: no line, or one line under the barcode
OcrResults ==
    {<<>>, <<[text |-> <<" ", "A", "1", "\n">>,
              bbox |-> [x0 |-> 4, y0 |-> 8, x1 |-> 8, y1 |-> 9]]>>}

pageCanvas == [width |-> 16, height |-> 12]

\* rxingBarcodes.get(text)?.bytes, the Map being built by reduce: last wins
RECURSIVE rxingGetBytes(_, _)
rxingGetBytes(rxingBarcodes, text) ==
    IF rxingBarcodes = <<>> THEN NoBytes
    ELSE IF rxingBarcodes[Len(rxingBarcodes)].text = text
         THEN rxingBarcodes[Len(rxingBarcodes)].bytes
         ELSE rxingGetBytes(SubSeq(rxingBarcodes, 1, Len(rxingBarcodes) - 1), text)

\* pageBarcodes.forEach((item) => item.rawBytes = ...)
augment(barcodes, rxingBarcodes) ==
    [i \in 1 .. Len(barcodes) |->
        [barcodes[i] EXCEPT !.rawBytes = rxingGetBytes(rxingBarcodes, barcodes[i].text)]]

\* the record pushed to extractedPageBarcodes
ExtractedBarcode(barcode, strict, label, png, svg) ==
    [text |-> barcode.text, rawBytes |-> barcode.rawBytes,
     isValid |-> barcode.isValid, position |-> barcode.position,
     strict |-> strict, label |-> label,
     format |-> zxingToBwip(barcode.format),
     barcodeSvg |-> svg, barcodePng |-> png]

\* one entry of `barcodes` in the page's result
OutputBarcode(item) ==
    [text |-> item.text, label |-> item.label, format |-> item.format,
     strict |-> item.strict,
     output |-> [png |-> item.barcodePng, svg |-> item.barcodeSvg],
     bbox |-> bboxFromBarcode(item)]

PageResult(id, extracted, textLines) ==
    [id |-> id,
     barcodes |-> [i \in 1 .. Len(extracted) |-> OutputBarcode(extracted[i])],
     textLines |-> textLines]

\* pageResults[`page:${pageId}`] = value
setKey(results, key, value) ==
    [k \in DOMAIN results \cup {key} |-> IF k = key THEN value ELSE results[k]]

InitPipe ==
    /\ argv \in [strict : BOOLEAN, excludePages : ExcludeParams]
    /\ StartPipe
    /\ IdleRender /\ IdleDir /\ IdleLabel /\ IdleUnits

others == <<varsRender, varsDir, varsLabel, varsUnits>>
othersAndValid == <<others, validPages>>

\* the locals of one iteration of the page loop, out of scope
NoPageLocals ==
    /\ pageId' = NoPage
    /\ pageBarcodes' = <<>>
    /\ pageTextLines' = <<>>
    /\ idx' = 0
    /\ extractedPageBarcodes' = <<>>

\* an error leaves the try block: its locals go out of scope, the inner
\* finally runs next
Throw(err) ==
    /\ thrown' = err
    /\ pc' = "finally"
    /\ globQueue' = <<>>
    /\ pageResults' = <<>>
    /\ NoPageLocals

\* for (const file of inputFiles): fs.mkdtemp
StartFile ==
    /\ pc = "file"
    /\ tempDirs' = tempDirs \cup {fileIdx}
    /\ pageResults' = <<>>
    /\ outputJson' = NoOutput
    /\ calls' = {}
    /\ processed' = <<>>
    /\ validPages' = {}
    /\ pc' = "rasterize"
    /\ UNCHANGED <<argv, fileIdx, globQueue, pageId, pageBarcodes, pageTextLines,
                   idx, extractedPageBarcodes, written, errors, failures, thrown,
                   others>>

\* poppler.pdfToCairo wrote page-1.png .. page-n.png; fs.glob will yield them
\* in the order of the directory
Rasterize ==
    /\ pc = "rasterize"
    /\ \E n \in 1 .. MaxPages : globQueue' \in Permutations(1 .. n)
    /\ pc' = "glob"
    /\ UNCHANGED <<argv, fileIdx, tempDirs, pageId, pageBarcodes, pageTextLines,
                   idx, extractedPageBarcodes, pageResults, outputJson, written,
                   errors, calls, processed, failures, thrown, othersAndValid>>

RasterizeThrows ==
    /\ pc = "rasterize"
    /\ Throw("pdfToCairo")
    /\ UNCHANGED <<argv, fileIdx, tempDirs, outputJson, written, errors, calls,
                   processed, failures, othersAndValid>>

\* fs.glob yields an excluded page: continue
SkipExcludedPage ==
    /\ pc = "glob"
    /\ globQueue # <<>>
    /\ Head(globQueue) \in excludedPages
    /\ globQueue' = Tail(globQueue)
    /\ UNCHANGED <<argv, pc, fileIdx, tempDirs, pageId, pageBarcodes, pageTextLines, idx,
                   extractedPageBarcodes, pageResults, outputJson, written,
                   errors, calls, processed, failures, thrown, othersAndValid>>

\* fs.glob yields a page that is processed: fs.readFile, then zxing is called
StartPage ==
    /\ pc = "glob"
    /\ globQueue # <<>>
    /\ Head(globQueue) \notin excludedPages
    /\ pageId' = Head(globQueue)
    /\ globQueue' = Tail(globQueue)
    /\ processed' = Append(processed, Head(globQueue))
    /\ calls' = calls \cup {<<Head(globQueue), "zxing", 0>>}
    /\ pc' = "zxing"
    /\ UNCHANGED <<argv, fileIdx, tempDirs, pageBarcodes, pageTextLines, idx,
                   extractedPageBarcodes, pageResults, outputJson, written,
                   errors, failures, thrown, othersAndValid>>

\* zxing.readBarcodes found nothing: continue
ZxingNothing ==
    /\ pc = "zxing"
    /\ NoPageLocals
    /\ pc' = "glob"
    /\ UNCHANGED <<argv, fileIdx, tempDirs, globQueue, pageResults, outputJson, written,
                   errors, calls, processed, failures, thrown, othersAndValid>>

\* zxing.readBarcodes found barcodes; in strict mode rxing is called next,
\* else the OCR
ZxingFound ==
    /\ pc = "zxing"
    /\ \E result \in ZxingResults :
         /\ Len(result) > 0
         /\ pageBarcodes' = result
         /\ validPages' =
              IF \E i \in 1 .. Len(result) : result[i].isValid
              THEN validPages \cup {pageId} ELSE validPages
    /\ pc' = IF argv.strict THEN "rxing" ELSE "ocr"
    /\ calls' = calls \cup {<<pageId, IF argv.strict THEN "rxing" ELSE "ocr", 0>>}
    /\ UNCHANGED <<argv, fileIdx, tempDirs, globQueue, pageId, pageTextLines, idx,
                   extractedPageBarcodes, pageResults, outputJson, written,
                   errors, processed, failures, thrown, others>>

ZxingThrows ==
    /\ pc = "zxing"
    /\ Throw("readBarcodes")
    /\ UNCHANGED <<argv, fileIdx, tempDirs, outputJson, written, errors, calls,
                   processed, failures, othersAndValid>>

\* rxingDetectBarcodes resolved (with [] on NotFoundException): rawBytes are
\* attached by decoded text
RxingAugment ==
    /\ pc = "rxing"
    /\ \E rxingBarcodes \in RxingResults :
         pageBarcodes' = augment(pageBarcodes, rxingBarcodes)
    /\ pc' = "ocr"
    /\ calls' = calls \cup {<<pageId, "ocr", 0>>}
    /\ UNCHANGED <<argv, fileIdx, tempDirs, globQueue, pageId, pageTextLines, idx,
                   extractedPageBarcodes, pageResults, outputJson, written,
                   errors, processed, failures, thrown, othersAndValid>>

\* rxingDetectBarcodes rejected with another error: nothing catches it
RxingThrows ==
    /\ pc = "rxing"
    /\ failures' = failures \cup {<<fileIdx, pageId, 0, "verify">>}
    /\ Throw("rxing")
    /\ UNCHANGED <<argv, fileIdx, tempDirs, outputJson, written, errors, calls,
                   processed, othersAndValid>>

\* tessWorker1.recognize resolved; the loop over pageBarcodes starts
Ocr ==
    /\ pc = "ocr"
    /\ pageTextLines' \in OcrResults
    /\ extractedPageBarcodes' = <<>>
    /\ idx' = 1
    /\ pc' = "barcode"
    /\ UNCHANGED <<argv, fileIdx, tempDirs, globQueue, pageId, pageBarcodes,
                   pageResults, outputJson, written, errors, calls, processed,
                   failures, thrown, othersAndValid>>

AtBarcode == pc = "barcode" /\ idx <= Len(pageBarcodes)

\* if (!barcode.isValid) continue
BarcodeInvalid ==
    /\ AtBarcode
    /\ ~pageBarcodes[idx].isValid
    /\ idx' = idx + 1
    /\ UNCHANGED <<argv, pc, fileIdx, tempDirs, globQueue, pageId, pageBarcodes,
                   pageTextLines, extractedPageBarcodes, pageResults, outputJson,
                   written, errors, calls, processed, failures, thrown, othersAndValid>>

\* the switch reached bwip-js and it answered: the images are written, the
\* label is detected and the record is pushed
BarcodeRegenerated ==
    /\ AtBarcode
    /\ pageBarcodes[idx].isValid
    /\ LET barcode == pageBarcodes[idx]
           r == regenerate(barcode, argv.strict)
       IN  /\ r.kind = "render"
           /\ extractedPageBarcodes' =
                Append(extractedPageBarcodes,
                       ExtractedBarcode(barcode, r.strict,
                           labelDetection(barcode, pageTextLines, pageCanvas).label,
                           toBuffer(r.options), toSVG(r.options)))
    /\ calls' = calls \cup {<<pageId, "bwip", idx>>}
    /\ idx' = idx + 1
    /\ UNCHANGED <<argv, pc, fileIdx, tempDirs, globQueue, pageId, pageBarcodes,
                   pageTextLines, pageResults, outputJson, written, errors,
                   processed, failures, thrown, othersAndValid>>

\* bwipjs.toBuffer or bwipjs.toSVG threw: nothing catches it in the loop
BarcodeBwipThrows ==
    /\ AtBarcode
    /\ pageBarcodes[idx].isValid
    /\ regenerate(pageBarcodes[idx], argv.strict).kind = "render"
    /\ calls' = calls \cup {<<pageId, "bwip", idx>>}
    /\ failures' = failures \cup {<<fileIdx, pageId, idx, "regenerate">>}
    /\ Throw("bwip-js")
    /\ UNCHANGED <<argv, fileIdx, tempDirs, outputJson, written, errors,
                   processed, othersAndValid>>

\* default case, not strict: regen = false, the record has no image
BarcodeNotRegenerated ==
    /\ AtBarcode
    /\ pageBarcodes[idx].isValid
    /\ LET barcode == pageBarcodes[idx]
           r == regenerate(barcode, argv.strict)
       IN  /\ r.kind = "skip"
           /\ extractedPageBarcodes' =
                Append(extractedPageBarcodes,
                       ExtractedBarcode(barcode, r.strict,
                           labelDetection(barcode, pageTextLines, pageCanvas).label,
                           NoImage, NoImage))
    /\ idx' = idx + 1
    /\ UNCHANGED <<argv, pc, fileIdx, tempDirs, globQueue, pageId, pageBarcodes,
                   pageTextLines, pageResults, outputJson, written, errors,
                   calls, processed, failures, thrown, othersAndValid>>

\* default case, strict: throw new Error('Can not regenerate unknown ...')
BarcodeUnknownStrict ==
    /\ AtBarcode
    /\ pageBarcodes[idx].isValid
    /\ regenerate(pageBarcodes[idx], argv.strict).kind = "throw"
    /\ Throw("unknown format")
    /\ UNCHANGED <<argv, fileIdx, tempDirs, outputJson, written, errors, calls,
                   processed, failures, othersAndValid>>

\* the loop over pageBarcodes ended: pageResults[`page:${pageId}`] = ...
PageDone ==
    /\ pc = "barcode"
    /\ idx > Len(pageBarcodes)
    /\ pageResults' = setKey(pageResults, pageId,
                             PageResult(pageId, extractedPageBarcodes, pageTextLines))
    /\ NoPageLocals
    /\ pc' = "glob"
    /\ UNCHANGED <<argv, fileIdx, tempDirs, globQueue, outputJson, written,
                   errors, calls, processed, failures, thrown, othersAndValid>>

\* fs.glob is exhausted: the common header is added and the JSON is written
WriteJson ==
    /\ pc = "glob"
    /\ globQueue = <<>>
    /\ outputJson' = [file |-> inputFiles[fileIdx], pages |-> pageResults,
                      common |-> [file |-> inputFiles[fileIdx],
                                  strict |-> argv.strict]]
    /\ written' = written \cup {fileIdx}
    /\ pageResults' = <<>>
    /\ pc' = "finally"
    /\ UNCHANGED <<argv, fileIdx, tempDirs, globQueue, pageId, pageBarcodes,
                   pageTextLines, idx, extractedPageBarcodes, errors, calls,
                   processed, failures, thrown, othersAndValid>>

\* the inner finally is empty (the deletion of tempDir is a TODO); then the
\* next file, or the error goes on to the outer catch
InnerFinally ==
    /\ pc = "finally"
    /\ IF thrown # "none"
       THEN pc' = "catch" /\ UNCHANGED fileIdx
       ELSE /\ fileIdx' = fileIdx + 1
            /\ pc' = IF fileIdx < Len(inputFiles) THEN "file" ELSE "terminate"
    /\ UNCHANGED <<argv, tempDirs, globQueue, pageId, pageBarcodes, pageTextLines,
                   idx, extractedPageBarcodes, pageResults, outputJson, written,
                   errors, calls, processed, failures, thrown, othersAndValid>>

\* catch (err) { console.error("Failed to process file", err) }: the loop
\* over inputFiles is inside the try, so no further file is processed
OuterCatch ==
    /\ pc = "catch"
    /\ errors' = Append(errors, thrown)
    /\ pc' = "terminate"
    /\ UNCHANGED <<argv, fileIdx, tempDirs, globQueue, pageId, pageBarcodes,
                   pageTextLines, idx, extractedPageBarcodes, pageResults,
                   outputJson, written, calls, processed, failures, thrown,
                   othersAndValid>>

\* finally { await tessWorker1.terminate() }
Terminate ==
    /\ pc = "terminate"
    /\ pc' = "done"
    /\ UNCHANGED <<argv, fileIdx, tempDirs, globQueue, pageId, pageBarcodes,
                   pageTextLines, idx, extractedPageBarcodes, pageResults,
                   outputJson, written, errors, calls, processed, failures,
                   thrown, othersAndValid>>

Init == InitPipe

Next ==
    \/ StartFile
    \/ Rasterize
    \/ RasterizeThrows
    \/ SkipExcludedPage
    \/ StartPage
    \/ ZxingNothing
    \/ ZxingFound
    \/ ZxingThrows
    \/ RxingAugment
    \/ RxingThrows
    \/ Ocr
    \/ BarcodeInvalid
    \/ BarcodeRegenerated
    \/ BarcodeBwipThrows
    \/ BarcodeNotRegenerated
    \/ BarcodeUnknownStrict
    \/ PageDone
    \/ WriteJson
    \/ InnerFinally
    \/ OuterCatch
    \/ Terminate

Spec == Init /\ [][Next]_vars

----------------------------------------------------------------------------
(* Unit conversion of src/utils.mjs.  A number is held as its multiple of  *)
(* 10000, so that the factors 0.75 and 1.33 and their product are exact.   *)

MaxPts == 4

\* export const ptsToPixel = (pts) => pts * 0.75
ptsToPixel(pts) == (pts * 75) \div 100

\* export const pixelToPts = (px) => px * 1.33
pixelToPts(px) == (px * 133) \div 100

Number(n) == n * 10000

\* the boxes in layout units with whole coordinates up to MaxPts
LayoutBoxes ==
    {[x0 |-> Number(a), y0 |-> Number(b), x1 |-> Number(c), y1 |-> Number(d)] :
        a \in 0 .. MaxPts, b \in 0 .. MaxPts, c \in 0 .. MaxPts, d \in 0 .. MaxPts}

boxToPixel(bbox) ==
    [x0 |-> ptsToPixel(bbox.x0), y0 |-> ptsToPixel(bbox.y0),
     x1 |-> ptsToPixel(bbox.x1), y1 |-> ptsToPixel(bbox.y1)]

boxToPts(bbox) ==
    [x0 |-> pixelToPts(bbox.x0), y0 |-> pixelToPts(bbox.y0),
     x1 |-> pixelToPts(bbox.x1), y1 |-> pixelToPts(bbox.y1)]

InitUnits ==
    /\ uBbox \in {b \in LayoutBoxes : b.x0 <= b.x1 /\ b.y0 <= b.y1}
    /\ uPixel = NoBox /\ uBack = NoBox
    /\ IdleRender /\ IdleDir /\ IdleLabel /\ IdlePipe

ToPixel ==
    /\ uPixel = NoBox
    /\ uPixel' = boxToPixel(uBbox)
    /\ UNCHANGED <<uBbox, uBack, varsRender, varsDir, varsLabel, varsPipe>>

ToPts ==
    /\ uPixel # NoBox /\ uBack = NoBox
    /\ uBack' = boxToPts(uPixel)
    /\ UNCHANGED <<uBbox, uPixel, varsRender, varsDir, varsLabel, varsPipe>>

NextUnits == ToPixel \/ ToPts

SpecUnits == InitUnits /\ [][NextUnits]_vars

----------------------------------------------------------------------------
(* Claims about regeneration, checked under SpecRender *)

\* what the two regenerations of the current barcode settled to, when they
\* reached the renderer and it answered
Outcomes ==
    {[options |-> r.options, strict |-> r.strict] :
        r \in {x \in {rRender} : x.kind = "resolved"}
              \cup {x \in {rRegen} : x.kind = "done" /\ x.regen}}

BothRendered == rRender.kind = "resolved" /\ rRegen.kind = "done" /\ rRegen.regen

RawNonEmpty == rBarcode.rawBytes # NoBytes /\ Len(rBarcode.rawBytes) > 0

\* the token the documentation describes: "^" and the byte value in three
\* decimal digits
ExpectedToken(v) ==
    <<"^", Digits[(v \div 100) + 1], Digits[((v \div 10) % 10) + 1],
      Digits[(v % 10) + 1]>>

RECURSIVE ExpectedEscape(_)
ExpectedEscape(bytes) ==
    IF bytes = <<>> THEN <<>>
    ELSE ExpectedToken(Head(bytes)) \o ExpectedEscape(Tail(bytes))

\* C1: a regenerated barcode has strict = true only if its format is code128
\* or datamatrix, strict mode was requested and a non-empty rawBytes was
\* there when the recipe was built.
C1_StrictImplies ==
    \A o \in Outcomes :
        o.strict =>
            /\ rBarcode.format \in {"Code128", "DataMatrix"}
            /\ o.options.bcid \in {"code128", "datamatrix"}
            /\ rStrict
            /\ RawNonEmpty

C1_Witness ==
    /\ BothRendered
    /\ rRender.strict /\ rRegen.strict

\* C2 as stated: a code128 regenerated with strict requested and rawBytes
\* present is rendered in raw mode from the tokens of all bytes but the last
\* two, and strict is true.
C2_Original ==
    (rBarcode.format = "Code128" /\ rStrict /\ RawNonEmpty) =>
        \A o \in Outcomes :
            /\ o.options.raw
            /\ o.options.text =
                 ExpectedEscape(SubSeq(rBarcode.rawBytes, 1,
                                       Len(rBarcode.rawBytes) - 2))
            /\ o.strict

\* C2 amended: that holds when rawBytes has at least three bytes (so that a
\* byte is left once the last two are dropped); with one or two bytes the
\* escape string is empty and the code128 is rendered from the decoded text
\* with strict = false.  Raw bytes 65 66 29 106 give ^065^066.
C2_Code128Strict ==
    (rBarcode.format = "Code128" /\ rStrict /\ RawNonEmpty) =>
        \A o \in Outcomes :
            /\ Len(rBarcode.rawBytes) >= 3 =>
                /\ o.options.raw
                /\ o.options.text =
                     ExpectedEscape(SubSeq(rBarcode.rawBytes, 1,
                                           Len(rBarcode.rawBytes) - 2))
                /\ o.strict
            /\ Len(rBarcode.rawBytes) < 3 =>
                /\ ~o.options.raw
                /\ o.options.text =
                     (IF rBarcode.readerInit
                      THEN <<"^", "F", "N", "C", "3">> \o rBarcode.text
                      ELSE rBarcode.text)
                /\ ~o.strict
            /\ rBarcode.rawBytes = <<65, 66, 29, 106>> =>
                o.options.text = <<"^", "0", "6", "5", "^", "0", "6", "6">>

C2_Witness ==
    /\ rBarcode.format = "Code128" /\ rStrict
    /\ rBarcode.rawBytes = <<65, 66, 29, 106>>
    /\ BothRendered
    /\ rRegen.options.text = <<"^", "0", "6", "5", "^", "0", "6", "6">>

\* C3: a datamatrix regenerated with strict requested and (non-empty)
\* rawBytes is rendered in raw mode from the tokens of every byte, with the
\* decoded text as alt-text, and strict is true; otherwise it is rendered
\* from the decoded text, prefixed by ^PROG only when readerInit is set, and
\* strict is false.
C3_Datamatrix ==
    rBarcode.format = "DataMatrix" =>
        \A o \in Outcomes :
            IF rStrict /\ RawNonEmpty
            THEN /\ o.options.raw
                 /\ o.options.text = ExpectedEscape(rBarcode.rawBytes)
                 /\ o.options.alttext = rBarcode.text
                 /\ o.strict
            ELSE /\ ~o.options.raw
                 /\ o.options.text =
                      (IF rBarcode.readerInit
                       THEN <<"^", "P", "R", "O", "G">> \o rBarcode.text
                       ELSE rBarcode.text)
                 /\ ~o.strict

C3_Witness ==
    /\ rBarcode.format = "DataMatrix" /\ rStrict
    /\ rBarcode.rawBytes = <<7, 29, 106>>
    /\ BothRendered
    /\ rRegen.options.text =
         <<"^", "0", "0", "7", "^", "0", "2", "9", "^", "1", "0", "6">>
    /\ rRegen.strict

\* C4: a qrcode is rendered from the decoded text with strict = false,
\* whatever strict mode and rawBytes are, and the strict request raises no
\* error for it.
C4_Qrcode ==
    rBarcode.format = "QRCode" =>
        /\ rRender.error # "unknown format"
        /\ rRegen.error # "unknown format"
        /\ rRender.kind # "null"
        /\ \A o \in Outcomes :
              /\ o.options.text = rBarcode.text
              /\ ~o.options.raw
              /\ ~o.strict

C4_Witness ==
    /\ rBarcode.format = "QRCode" /\ rStrict /\ RawNonEmpty
    /\ rBarcode.readerInit
    /\ BothRendered
    /\ rRegen.options.text = rBarcode.text

----------------------------------------------------------------------------
(* Claims about label detection (SpecLabel) and the quantizer (SpecDir) *)

\* the text line box lies within the barcode box, edges touching included
ContainedInBarcode(lineBbox) ==
    /\ lBarcode.position.topLeft.x <= lineBbox.x0
    /\ lineBbox.x1 <= lBarcode.position.bottomRight.x
    /\ lBarcode.position.topLeft.y <= lineBbox.y0
    /\ lineBbox.y1 <= lBarcode.position.bottomRight.y

\* C8: a text line whose box is fully contained in the barcode's box, edges
\* touching included, is never the line selected as the label.
C8_ContainedNeverSelected ==
    (lLabel.kind = "done" /\ lLabel.index # 0) =>
        ~ContainedInBarcode(lTextLines[lLabel.index].bbox)

\* a contained line that touches the barcode's edge comes first, and the
\* second line is the label
C8_Witness ==
    /\ lLabel.kind = "done"
    /\ Len(lTextLines) = 2
    /\ ContainedInBarcode(lTextLines[1].bbox)
    /\ lTextLines[1].bbox.x1 = lBarcode.position.bottomRight.x
    /\ lLabel.index = 2
    /\ lLabel.label = <<"B", " ", "2">>

\* the sectors as documented: lower bound exclusive, upper bound inclusive
DocumentedDirection(milli) ==
    IF 785 < milli /\ milli <= 2355 THEN NORTH
    ELSE IF 2355 < milli /\ milli <= 3925 THEN WEST
    ELSE IF 3925 < milli /\ milli <= 5495 THEN SOUTH
    ELSE EAST

\* the sectors with the lower bound inclusive and the upper bound exclusive
HalfOpenDirection(milli) ==
    IF 785 <= milli /\ milli < 2355 THEN NORTH
    ELSE IF 2355 <= milli /\ milli < 3925 THEN WEST
    ELSE IF 3925 <= milli /\ milli < 5495 THEN SOUTH
    ELSE EAST

QuantizedAngle ==
    /\ dResult # NoDirection
    /\ dRadians.kind = "milli"
    /\ 0 <= dRadians.milli /\ dRadians.milli <= 6283

----------------------------------------------------------------------------
(* Claims about the main loop, checked under Spec *)

UnknownFormat(barcode) ==
    barcode.format \notin {"QRCode", "DataMatrix", "Code128"}

\* the set --exclude-pages stands for
ExcludedByArgv ==
    CASE argv.excludePages = << <<1>> >> -> {1}
      [] argv.excludePages = << <<3, 2>> >> -> {2, 3}
      [] OTHER -> {}

FileWritten == pc = "finally" /\ thrown = "none"

\* C5: at a valid barcode whose format is none of qrcode, datamatrix and
\* code128 the renderer is not invoked; in strict mode an error is thrown,
\* otherwise the loop goes on to the next barcode and the record it pushed
\* has no image and strict = false.
C5_UnknownFormat ==
    [][(AtBarcode /\ pageBarcodes[idx].isValid /\ UnknownFormat(pageBarcodes[idx])) =>
          /\ <<pageId, "bwip", idx>> \notin calls'
          /\ IF argv.strict
             THEN thrown' = "unknown format" /\ pc' = "finally"
             ELSE /\ thrown' = "none" /\ pc' = "barcode" /\ idx' = idx + 1
                  /\ Len(extractedPageBarcodes') = Len(extractedPageBarcodes) + 1
                  /\ LET item == extractedPageBarcodes'[Len(extractedPageBarcodes')] IN
                       /\ item.format = "ean-13"
                       /\ item.barcodePng = NoImage /\ item.barcodeSvg = NoImage
                       /\ item.strict = FALSE]_vars

\* the JSON of a file was written with an entry for an ean-13 that has no
\* image, after a second barcode was handled
C5_Witness ==
    /\ FileWritten
    /\ \E k \in DOMAIN outputJson.pages :
         LET barcodes == outputJson.pages[k].barcodes IN
         /\ Len(barcodes) = 2
         /\ barcodes[1].format = "ean-13"
         /\ barcodes[1].output.png = NoImage
         /\ ~barcodes[1].strict

\* C6: the written output has a `page:<id>` key only for pages with at least
\* one valid barcode.
C6_Claim ==
    FileWritten => \A k \in DOMAIN outputJson.pages : k \in validPages

\* C7: no page of the exclusion set has a `page:<id>` key, and no decoder,
\* OCR or renderer call is made for it.
C7_Excluded ==
    \A p \in ExcludedByArgv :
        /\ p \notin DOMAIN pageResults
        /\ p \notin DOMAIN outputJson.pages
        /\ \A c \in calls : c[1] # p
        /\ \A i \in 1 .. Len(processed) : processed[i] # p
        /\ pageId # p

\* pages 2 and 3 are excluded, the file had pages 1 and 2, and its JSON was
\* written with page 1 alone
C7_Witness ==
    /\ FileWritten
    /\ ExcludedByArgv = {2, 3}
    /\ DOMAIN outputJson.pages = {1}
    /\ processed = <<1>>
    /\ <<1, "bwip", 1>> \in calls

\* C10: when the secondary decoder or the renderer failed for a barcode, the
\* JSON of its file is written all the same and every input file is taken up.
C10_Claim ==
    pc = "done" =>
        \A f \in failures :
            /\ f[1] \in written
            /\ tempDirs = 1 .. MaxFiles

\* the engines whose failure is an engine-unavailable error
EngineErrors == {"pdfToCairo", "readBarcodes"}

\* C11: when rasterization or primary detection threw in document k, the
\* error is surfaced and every later document k+1..n is still taken up.
C11_Claim ==
    (pc = "done" /\ thrown \in EngineErrors) =>
        /\ errors = <<thrown>>
        /\ fileIdx \notin written
        /\ \A later \in fileIdx + 1 .. Len(inputFiles) : later \in tempDirs

\* C12: the temporary directory of a document is removed on every exit path
\* from its processing; between two documents and after the run none
\* exists.  (The runs of Spec are runs without --debug.)
C12_Claim ==
    pc \in {"file", "catch", "terminate", "done"} => tempDirs = {}

\* C13: within one document the pages are processed in strictly ascending
\* page-id order, whatever the order in which fs.glob enumerates the files.
C13_Claim ==
    \A i, j \in 1 .. Len(processed) :
        i < j => processed[i] < processed[j]

\* the formats for which the raw bytes are used
EligibleFormats == {"code128", "datamatrix"}

SecondaryAllowed(barcode) ==
    argv.strict /\ zxingToBwip(barcode.format) \in EligibleFormats

\* C14: the secondary decoder runs, and raw bytes are attached to a barcode,
\* only in strict mode and for a code128 or datamatrix; otherwise no
\* secondary decode happens and rawBytes stays absent.
C14_Claim ==
    /\ pc = "rxing" =>
         \E i \in 1 .. Len(pageBarcodes) : SecondaryAllowed(pageBarcodes[i])
    /\ \A i \in 1 .. Len(pageBarcodes) :
         pageBarcodes[i].rawBytes # NoBytes => SecondaryAllowed(pageBarcodes[i])
    /\ \A i \in 1 .. Len(extractedPageBarcodes) :
         extractedPageBarcodes[i].rawBytes # NoBytes =>
             argv.strict /\ extractedPageBarcodes[i].format \in EligibleFormats

\* C15: a box in layout units converted to pixel units and back contains
\* the original box.
C15_Claim ==
    uBack # NoBox =>
        /\ uBack.x0 <= uBbox.x0 /\ uBack.y0 <= uBbox.y0
        /\ uBack.x1 >= uBbox.x1 /\ uBack.y1 >= uBbox.y1

----------------------------------------------------------------------------
(* Claims about label detection, checked under SpecLabel *)

LabelDone == lLabel.kind = "done"

BarcodeWidth == lBarcode.position.bottomRight.x - lBarcode.position.topLeft.x
BarcodeHeight == lBarcode.position.bottomRight.y - lBarcode.position.topLeft.y
SmallerSide == IF BarcodeWidth <= BarcodeHeight THEN BarcodeWidth ELSE BarcodeHeight
LargerPageSide == IF lCanvas.width >= lCanvas.height THEN lCanvas.width ELSE lCanvas.height

\* the square of the distance d between the centers the code computes
CenterDistanceSq(i) ==
    bboxCenterDistanceSq(bboxFromBarcode(lBarcode), lTextLines[i].bbox)

\* line i is among the candidates
IsCandidate(i) ==
    \E k \in 1 .. Len(lLabel.candidates) : lLabel.candidates[k].index = i

\* d >= 0.25 * the larger page side
BeyondMax(i) == 16 * CenterDistanceSq(i) >= LargerPageSide * LargerPageSide

\* d <= exactly half of the smaller side of the barcode
WithinExactHalf(i) == 4 * CenterDistanceSq(i) <= SmallerSide * SmallerSide

\* d <= half of the smaller side of the barcode, rounded down
WithinFlooredHalf(i) ==
    CenterDistanceSq(i) <= (SmallerSide \div 2) * (SmallerSide \div 2)

\* C16 as stated: a line is a candidate exactly when it is not contained in
\* the barcode and minDistance < d < maxDistance, minDistance being exactly
\* half of the smaller side of the barcode, also for odd sides.
C16_Original ==
    LabelDone =>
        \A i \in 1 .. Len(lTextLines) :
            IsCandidate(i) <=>
                ~(BeyondMax(i) \/ WithinExactHalf(i)
                    \/ ContainedInBarcode(lTextLines[i].bbox))

\* C16 amended: minDistance is half of the smaller side rounded down to a
\* whole number; a line is discarded when d >= maxDistance, d <= minDistance
\* or it is contained in the barcode, and kept otherwise.
C16_Thresholds ==
    LabelDone =>
        \A i \in 1 .. Len(lTextLines) :
            IsCandidate(i) <=>
                ~(BeyondMax(i) \/ WithinFlooredHalf(i)
                    \/ ContainedInBarcode(lTextLines[i].bbox))

\* the barcode is 3 by 3 (half of it is 1.5, rounded down 1) and a line at
\* distance sqrt(2) is kept
C16_Witness ==
    /\ LabelDone
    /\ BarcodeWidth = 3 /\ BarcodeHeight = 3
    /\ Len(lTextLines) = 2
    /\ CenterDistanceSq(1) = 2 /\ IsCandidate(1)
    /\ CenterDistanceSq(2) = 1 /\ ~IsCandidate(2)

\* the square of the penalty factor, times 10000: 1.1, 1.05 and 1 squared
PenaltySq(direction) ==
    CASE direction = NORTH -> 12100
      [] direction \in {EAST, WEST} -> 11025
      [] OTHER -> 10000

\* C17: a surviving line is ranked by its center distance plus 10% when its
\* direction is NORTH, plus 5% when it is EAST or WEST, unchanged when SOUTH
\* (the candidates hold 100 times the square of the ranking distance).
C17_Claim ==
    LabelDone =>
        \A k \in 1 .. Len(lLabel.candidates) :
            LET c == lLabel.candidates[k] IN
            c.distance * 100 =
                CenterDistanceSq(c.index) * PenaltySq(c.direction)

\* what trim() leaves of the texts of the text lines
TrimmedText(text) ==
    CASE text = <<" ", "A", "1", "\n">> -> <<"A", "1">>
      [] OTHER -> text

\* C18: the label is the trimmed text of the candidate with the smallest
\* penalized distance, among several with that distance the one that comes
\* first in the enumeration of the text lines; without a candidate there is
\* no label.
C18_Selection ==
    LabelDone =>
        IF lLabel.candidates = <<>>
        THEN lLabel.index = 0 /\ lLabel.label = NoString
        ELSE \E k \in 1 .. Len(lLabel.candidates) :
               LET best == lLabel.candidates[k] IN
               /\ lLabel.index = best.index
               /\ lLabel.label = TrimmedText(lTextLines[best.index].text)
               /\ \A j \in 1 .. Len(lLabel.candidates) :
                    LET other == lLabel.candidates[j] IN
                    /\ other.distance >= best.distance
                    /\ other.distance = best.distance => other.index >= best.index

\* two candidates at the same distance: the first line is the label
C18_Witness ==
    /\ LabelDone
    /\ Len(lLabel.candidates) = 2
    /\ lLabel.candidates[1].distance = lLabel.candidates[2].distance
    /\ lTextLines[1].bbox # lTextLines[2].bbox
    /\ lLabel.index = 1
    /\ lLabel.label = <<"A", "1">>

BarcodeCenter == bboxCenterPoint(bboxFromBarcode(lBarcode))
LineCenter(i) == bboxCenterPoint(lTextLines[i].bbox)

\* C19: in page-image coordinates (y grows downward) a line whose center is
\* directly above the center of the barcode is NORTH of it, directly below
\* SOUTH, directly to the right EAST and directly to the left WEST.
C19_Claim ==
    LabelDone =>
        \A k \in 1 .. Len(lLabel.candidates) :
            LET c == lLabel.candidates[k]
                line == LineCenter(c.index)
            IN  /\ (line.x = BarcodeCenter.x /\ line.y < BarcodeCenter.y)
                      => c.direction = NORTH
                /\ (line.x = BarcodeCenter.x /\ line.y > BarcodeCenter.y)
                      => c.direction = SOUTH
                /\ (line.y = BarcodeCenter.y /\ line.x > BarcodeCenter.x)
                      => c.direction = EAST
                /\ (line.y = BarcodeCenter.y /\ line.x < BarcodeCenter.x)
                      => c.direction = WEST

====
